---------------------------- MODULE Spec2Model ----------------------------
(***************************************************************************)
(* A model of src/code/part-one/signing.js: createPrivateKey,              *)
(* getPublicKey, sign and verify, each a short sequence of calls into      *)
(* Node's Buffer / crypto and the secp256k1 binding (v3 API:               *)
(* privateKeyVerify, publicKeyCreate, sign(...).signature, verify).        *)
(*                                                                         *)
(* Buffers are sequences of bytes (0..255), strings are sequences of       *)
(* one-character strings.  All buffer widths are the real ones (32-byte    *)
(* scalars and digests, 33/65-byte public keys, 64-byte signatures).  The  *)
(* curve itself is scaled so that its arithmetic can be enumerated: it is  *)
(* y^2 = x^3 + 7 (the secp256k1 equation) over the field of FieldP = 43    *)
(* elements, whose group has prime order GroupN = 31 (cofactor 1, order    *)
(* below the field prime, as for secp256k1).  The ECDSA operations are the *)
(* real algorithms run on that curve.  SHA-256 is a small mixing function  *)
(* with a 32-byte output.                                                  *)
(***************************************************************************)
EXTENDS Integers, Sequences, FiniteSets, TLC

(***************************************************************************)
(* Bounds of the model.                                                    *)
(***************************************************************************)
MaxDraws == 2      \* rejected draws of one createPrivateKey call that are counted
MaxMsgLen == 1     \* longest message the callers pass

(***************************************************************************)
(* Widths and curve parameters.                                            *)
(***************************************************************************)
KeyBytes == 32     \* randomBytes(32): a private key, a digest, r, s
FieldP == 43
GroupN == 31
CurveB == 7
Gx == 2
Gy == 12

Callers == {"a", "b"}

(***************************************************************************)
(* Strings and Buffers.                                                    *)
(***************************************************************************)
HexDigits == <<"0","1","2","3","4","5","6","7","8","9","a","b","c","d","e","f">>
UpperHexDigits == <<"0","1","2","3","4","5","6","7","8","9","A","B","C","D","E","F">>

\* The value of each character Buffer.from(str, 'hex') takes for a digit.
HexValues ==
  [c \in {HexDigits[i] : i \in 1..16} \cup {UpperHexDigits[i] : i \in 1..16} |->
     (CHOOSE i \in 1..16 : HexDigits[i] = c \/ UpperHexDigits[i] = c) - 1]

IsHexChar(c) == c \in DOMAIN HexValues

HexVal(c) == HexValues[c]

\* buf.toString('hex'): two lowercase digits per byte.
HexEncode(buf) ==
  [i \in 1..(2 * Len(buf)) |->
     LET b == buf[(i + 1) \div 2]
     IN  IF i % 2 = 1 THEN HexDigits[(b \div 16) + 1] ELSE HexDigits[(b % 16) + 1]]

\* The number of leading character pairs of str that are both hex digits.
RECURSIVE HexPrefixPairs(_, _)
HexPrefixPairs(str, n) ==
  IF 2 * n + 2 <= Len(str) /\ IsHexChar(str[2 * n + 1]) /\ IsHexChar(str[2 * n + 2])
    THEN HexPrefixPairs(str, n + 1)
    ELSE n

\* Buffer.from(str, 'hex'): decodes pair by pair and stops, without an
\* error, at the first pair that is not two hex digits; a trailing single
\* character is dropped.
HexDecode(str) ==
  [i \in 1..HexPrefixPairs(str, 0) |->
     16 * HexVal(str[2 * i - 1]) + HexVal(str[2 * i])]

\* Big-endian buffers as numbers.
BytesOf(v, len) == [i \in 1..len |-> IF i = len THEN v % 256 ELSE 0]

RECURSIVE BytesMod(_, _, _)
BytesMod(buf, m, acc) ==
  IF buf = <<>> THEN acc
  ELSE BytesMod(Tail(buf), m, (acc * 256 + Head(buf)) % m)

IsZeroBytes(buf) == \A i \in 1..Len(buf) : buf[i] = 0

\* a < b for big-endian buffers of the same length.
BytesLess(a, b) ==
  \E i \in 1..Len(a) :
    /\ a[i] < b[i]
    /\ \A j \in 1..(i - 1) : a[j] = b[j]

OrderBytes == BytesOf(GroupN, KeyBytes)
FieldBytes == BytesOf(FieldP, KeyBytes)

(***************************************************************************)
(* createHash('sha256').update(message).digest(): 32 bytes.                *)
(***************************************************************************)
RECURSIVE Absorb(_, _)
Absorb(message, h) ==
  IF message = <<>> THEN h
  ELSE Absorb(Tail(message), (h * 33 + Head(message) + 1) % 256)

Sha256(message) ==
  LET h == Absorb(message, 106)
  IN  [i \in 1..KeyBytes |-> (h * (2 * i + 1) + 7 * i) % 256]

(***************************************************************************)
(* The curve.                                                              *)
(***************************************************************************)
Infinity == <<0, 0>>
G == <<Gx, Gy>>

ModInv(a, m) == CHOOSE x \in 1..(m - 1) : (a * x) % m = 1

OnCurve(pt) == (pt[2] * pt[2]) % FieldP = (pt[1] * pt[1] * pt[1] + CurveB) % FieldP

PointAdd(p1, p2) ==
  IF p1 = Infinity THEN p2
  ELSE IF p2 = Infinity THEN p1
  ELSE IF p1[1] = p2[1] /\ (p1[2] + p2[2]) % FieldP = 0 THEN Infinity
  ELSE LET lam == IF p1 = p2
                    THEN (3 * p1[1] * p1[1] * ModInv((2 * p1[2]) % FieldP, FieldP)) % FieldP
                    ELSE ((p2[2] - p1[2]) * ModInv((p2[1] - p1[1]) % FieldP, FieldP)) % FieldP
           x3 == (lam * lam - p1[1] - p2[1]) % FieldP
           y3 == (lam * (p1[1] - x3) - p1[2]) % FieldP
       IN  <<x3, y3>>

RECURSIVE ScalarMul(_, _)
ScalarMul(k, pt) ==
  IF k = 0 THEN Infinity
  ELSE IF k % 2 = 0 THEN ScalarMul(k \div 2, PointAdd(pt, pt))
  ELSE PointAdd(pt, ScalarMul(k - 1, pt))


(***************************************************************************)
(* The secp256k1 binding.  A call either returns a value or throws.        *)
(***************************************************************************)
Returned(v) == [kind |-> "return", value |-> v]
Thrown(e) == [kind |-> "throw", value |-> e]
NoResult == [kind |-> "none", value |-> ""]

ScalarOf(buf) == BytesMod(buf, GroupN, 0)

\* secp256k1.privateKeyVerify(buf): 32 bytes, nonzero, below the group order.
PrivateKeyVerify(buf) ==
  /\ Len(buf) = KeyBytes
  /\ ~IsZeroBytes(buf)
  /\ BytesLess(buf, OrderBytes)

\* The compressed form of a point: 02/03 by the parity of y, then x.
SerializeCompressed(pt) == <<2 + (pt[2] % 2)>> \o BytesOf(pt[1], KeyBytes)

\* secp256k1.publicKeyCreate(buf), compressed by default.
PublicKeyCreate(buf) ==
  IF Len(buf) # KeyBytes THEN Thrown("RangeError: private key length is invalid")
  ELSE IF ~PrivateKeyVerify(buf) THEN Thrown("Error: private was invalid, try again")
  ELSE Returned(SerializeCompressed(ScalarMul(ScalarOf(buf), G)))

\* The deterministic nonce of attempt number counter (RFC 6979's role).
Nonce(d, hash, counter) ==
  ((d * 17 + BytesMod(hash, 251, 0) * 5 + counter * 11) % (GroupN - 1)) + 1

\* ECDSA signing with nonce k: r = x(kG) mod n, s = (z + r d) / k mod n,
\* retried with the next nonce when r or s is zero, s normalised to the
\* lower half of the order.
RECURSIVE EcdsaSign(_, _, _)
EcdsaSign(d, hash, counter) ==
  LET k == Nonce(d, hash, counter)
      z == ScalarOf(hash)
      r == ScalarMul(k, G)[1] % GroupN
      s == (ModInv(k, GroupN) * (z + r * d)) % GroupN
  IN  IF r = 0 \/ s = 0 THEN EcdsaSign(d, hash, counter + 1)
      ELSE BytesOf(r, KeyBytes) \o
           BytesOf(IF 2 * s > GroupN THEN GroupN - s ELSE s, KeyBytes)

\* secp256k1.sign(hash, privateKey).signature
Secp256k1Sign(hash, buf) ==
  IF Len(hash) # KeyBytes THEN Thrown("RangeError: message length is invalid")
  ELSE IF Len(buf) # KeyBytes THEN Thrown("RangeError: private key length is invalid")
  ELSE IF ~PrivateKeyVerify(buf)
    THEN Thrown("Error: nonce generation function failed or private key is invalid")
  ELSE Returned(EcdsaSign(ScalarOf(buf), hash, 0))

HasSqrt(v, odd) == \E y \in 0..(FieldP - 1) : (y * y) % FieldP = v /\ y % 2 = odd
Sqrt(v, odd) == CHOOSE y \in 0..(FieldP - 1) : (y * y) % FieldP = v /\ y % 2 = odd

\* The point a serialized public key stands for, or Infinity when it
\* does not parse: 33 bytes 02/03 x, or 65 bytes 04/06/07 x y.
ParsePublicKey(pub) ==
  LET xb == SubSeq(pub, 2, KeyBytes + 1)
      x == BytesMod(xb, FieldP, 0)
      rhs == (x * x * x + CurveB) % FieldP
  IN  IF ~BytesLess(xb, FieldBytes) THEN Infinity
      ELSE IF Len(pub) = KeyBytes + 1
        THEN IF pub[1] \in {2, 3} /\ HasSqrt(rhs, pub[1] - 2)
               THEN <<x, Sqrt(rhs, pub[1] - 2)>>
               ELSE Infinity
      ELSE LET yb == SubSeq(pub, KeyBytes + 2, 2 * KeyBytes + 1)
               y == BytesMod(yb, FieldP, 0)
           IN  IF /\ pub[1] \in {4, 6, 7}
                  /\ BytesLess(yb, FieldBytes)
                  /\ (pub[1] = 4 \/ y % 2 = pub[1] - 6)
                  /\ (x # 0 \/ y # 0)
                  /\ OnCurve(<<x, y>>)
                 THEN <<x, y>>
                 ELSE Infinity

\* The ECDSA verification equation, r and s in 1..n-1.
EcdsaVerify(z, r, s, Q) ==
  LET w == ModInv(s, GroupN)
      pt == PointAdd(ScalarMul((z * w) % GroupN, G), ScalarMul((r * w) % GroupN, Q))
  IN  pt # Infinity /\ pt[1] % GroupN = r

\* The two builds of the binding: the native addon parses the public key
\* before it looks at the values of r and s, the pure-JavaScript fallback
\* after.
Backends == {"native", "elliptic"}

\* secp256k1.verify(hash, sig, pubKey)
Secp256k1Verify(backend, hash, sigbuf, pub) ==
  IF Len(hash) # KeyBytes THEN Thrown("RangeError: message length is invalid")
  ELSE IF Len(sigbuf) # 2 * KeyBytes THEN Thrown("RangeError: signature length is invalid")
  ELSE IF Len(pub) \notin {KeyBytes + 1, 2 * KeyBytes + 1}
    THEN Thrown("RangeError: public key length is invalid")
  ELSE
    LET rb == SubSeq(sigbuf, 1, KeyBytes)
        sb == SubSeq(sigbuf, KeyBytes + 1, 2 * KeyBytes)
        r == ScalarOf(rb)
        s == ScalarOf(sb)
        Q == ParsePublicKey(pub)
        weak == r = 0 \/ s = 0 \/ 2 * s > GroupN
    IN  IF ~BytesLess(rb, OrderBytes) \/ ~BytesLess(sb, OrderBytes)
          THEN Thrown("Error: couldn't parse signature")
        ELSE IF backend = "elliptic" /\ weak THEN Returned(FALSE)
        ELSE IF Q = Infinity
          THEN Thrown("Error: the public key could not be parsed or is invalid")
        ELSE IF weak THEN Returned(FALSE)
        ELSE Returned(EcdsaVerify(ScalarOf(hash), r, s, Q))

(***************************************************************************)
(* signing.js, statement by statement.  Each operator is the value one     *)
(* statement computes from the values it reads.                            *)
(***************************************************************************)
\* Line 20 without the loop: the first draw is returned unchecked.
createPrivateKey_again_never(privKeyBuf) == FALSE

\* Line 20 with the condition the wrong way round.
createPrivateKey_again_inverted(privKeyBuf) == PrivateKeyVerify(privKeyBuf)

\* line 20: the do-while condition.
createPrivateKey_again(privKeyBuf) == ~PrivateKeyVerify(privKeyBuf)

\* line 21
createPrivateKey_return(privKeyBuf) == Returned(HexEncode(privKeyBuf))

\* line 39
getPublicKey_buffer(privateKeyArg) == HexDecode(privateKeyArg)

\* lines 41-42
getPublicKey_return(bufferVal) ==
  LET created == PublicKeyCreate(bufferVal)
  IN  IF created.kind = "throw" THEN created ELSE Returned(HexEncode(created.value))

\* line 62
sign_privateKey(privateKeyArg) == HexDecode(privateKeyArg)

\* The bytes of a string read as text, not as hex (hex digits only).
TextBytes(str) ==
  [i \in 1..Len(str) |->
     IF ~IsHexChar(str[i]) THEN 122
     ELSE IF HexVal(str[i]) < 10 THEN 48 + HexVal(str[i]) ELSE 87 + HexVal(str[i])]

\* Line 63 signing the digest's hex text: Buffer.from(digest('hex')).
sign_hash_hextext(messageArg) == TextBytes(HexEncode(Sha256(messageArg)))

\* line 63: the digest goes through its hex text and back to bytes.
sign_hash(messageArg) == HexDecode(HexEncode(Sha256(messageArg)))

\* lines 64-65
sign_return(hashVal, privateKeyBuf) ==
  LET signed == Secp256k1Sign(hashVal, privateKeyBuf)
  IN  IF signed.kind = "throw" THEN signed ELSE Returned(HexEncode(signed.value))

\* Line 82 without update(message): the digest of nothing.
verify_hash_noupdate(messageArg) == HexDecode(HexEncode(Sha256(<<>>)))

\* line 82
verify_hash(messageArg) == HexDecode(HexEncode(Sha256(messageArg)))

\* Line 83 without 'hex': the signature's text as bytes.
verify_sig_text(signatureArg) == TextBytes(signatureArg)

\* line 83
verify_sig(signatureArg) == HexDecode(signatureArg)

\* line 84
verify_pubKey(publicKeyArg) == HexDecode(publicKeyArg)

\* Line 85 with sig and pubKey in each other's place.
verify_return_swapped(backend, hashVal, sigVal, pubKeyVal) ==
  Secp256k1Verify(backend, hashVal, pubKeyVal, sigVal)

\* lines 85-86
verify_return(backend, hashVal, sigVal, pubKeyVal) ==
  Secp256k1Verify(backend, hashVal, sigVal, pubKeyVal)

\* What a call returns when it runs alone.
getPublicKey(privateKeyArg) == getPublicKey_return(getPublicKey_buffer(privateKeyArg))

sign(privateKeyArg, messageArg) ==
  sign_return(sign_hash(messageArg), sign_privateKey(privateKeyArg))

verify(backend, publicKeyArg, messageArg, signatureArg) ==
  verify_return(backend, verify_hash(messageArg), verify_sig(signatureArg),
                verify_pubKey(publicKeyArg))

(***************************************************************************)
(* What the callers pass.                                                  *)
(***************************************************************************)
MsgBytes == {33, 63}      \* "!" and "?"
Messages == UNION {[1..n -> MsgBytes] : n \in 0..MaxMsgLen}

ValidScalars == 1..(GroupN - 1)
AllOnes == [i \in 1..KeyBytes |-> 255]
PrivHex(v) == HexEncode(BytesOf(v, KeyBytes))

NotHex == <<"n", "o", "t", "-", "h", "e", "x">>
Garbage == <<"z", "z">>
UpperCase(str) ==
  [i \in 1..Len(str) |->
     IF \E j \in 1..16 : HexDigits[j] = str[i]
       THEN UpperHexDigits[CHOOSE j \in 1..16 : HexDigits[j] = str[i]]
       ELSE str[i]]

\* Private keys: every scalar from zero to just above the order, the
\* largest 32-byte value, and strings that are no 64-digit hex string.
PrivateKeyInputs ==
  {PrivHex(v) : v \in 0..(GroupN + 1)} \cup
  { HexEncode(AllOnes), NotHex, <<>>,
    PrivHex(5) \o Garbage,
    PrivHex(5) \o <<"0", "0">>,
    SubSeq(PrivHex(5), 1, 2 * KeyBytes - 2),
    UpperCase(PrivHex(10)) }

\* The random source: 32 bytes of any value.
RandomBytes == {BytesOf(v, KeyBytes) : v \in {0, 1, GroupN - 1, GroupN}} \cup {AllOnes}

\* verify on every pair (r, s) of small values and of the largest value.
SweepKeys == {7, GroupN - 1}
SweepMessages == {<<>>, <<33>>}
SweepParts == {BytesOf(v, KeyBytes) : v \in 0..(GroupN + 1)} \cup {AllOnes}

\* verify on strings that are no public key or no signature.
GoodPub == HexEncode(SerializeCompressed(ScalarMul(3, G)))
GoodSig == HexEncode(EcdsaSign(3, Sha256(<<>>), 0))
Uncompressed(pt) == <<4>> \o BytesOf(pt[1], KeyBytes) \o BytesOf(pt[2], KeyBytes)
PublicKeyInputs ==
  { GoodPub, NotHex, <<>>,
    GoodPub \o Garbage,
    GoodPub \o <<"0", "0">>,
    SubSeq(GoodPub, 1, 2 * KeyBytes),
    UpperCase(GoodPub),
    HexEncode(Uncompressed(ScalarMul(3, G))),
    HexEncode(<<5>> \o BytesOf(ScalarMul(3, G)[1], KeyBytes)),
    HexEncode(<<2>> \o BytesOf(1, KeyBytes)),
    HexEncode(<<2>> \o AllOnes) }
SignatureInputs ==
  { GoodSig, NotHex, <<>>,
    GoodSig \o Garbage,
    GoodSig \o <<"0", "0">>,
    SubSeq(GoodSig, 1, 4 * KeyBytes - 2),
    SubSeq(GoodSig, 1, 4 * KeyBytes - 2) \o Garbage,
    UpperCase(GoodSig),
    HexEncode(BytesOf(0, KeyBytes) \o BytesOf(0, KeyBytes)),
    HexEncode(AllOnes \o AllOnes) }

\* The inputs of the interleaved callers.
ConcKeys == {PrivHex(1), PrivHex(0), PrivHex(5) \o Garbage}
ConcScalars == {1, 7}
ConcMessages == {<<>>, <<33>>}

(***************************************************************************)
(* The state: one frame per caller.                                        *)
(***************************************************************************)
VARIABLES
  pc,          \* where each caller's call stands
  op,          \* the function it called
  args,        \* the arguments it passed
  origin,      \* how the caller came by the arguments
  privKey,     \* createPrivateKey's privKey
  buffer,      \* getPublicKey's buffer
  privateKey,  \* sign's privateKey after line 62
  hash,        \* sign's and verify's hash
  sig,         \* verify's sig
  pubKey,      \* verify's pubKey
  result,      \* what the call returned or threw
  rejected,    \* how many draws the loop of createPrivateKey rejected, to MaxDraws
  firstValid,  \* the first draw of the call that was a valid scalar
  seen         \* a getPublicKey call a caller remembers: <<argument, result>>

vars == <<pc, op, args, origin, privKey, buffer, privateKey, hash, sig, pubKey,
          result, rejected, firstValid, seen>>

Init ==
  /\ pc = [c \in Callers |-> "idle"]
  /\ op = [c \in Callers |-> "none"]
  /\ args = [c \in Callers |-> <<>>]
  /\ origin = [c \in Callers |-> <<>>]
  /\ privKey = [c \in Callers |-> <<>>]
  /\ buffer = [c \in Callers |-> <<>>]
  /\ privateKey = [c \in Callers |-> <<>>]
  /\ hash = [c \in Callers |-> <<>>]
  /\ sig = [c \in Callers |-> <<>>]
  /\ pubKey = [c \in Callers |-> <<>>]
  /\ result = [c \in Callers |-> NoResult]
  /\ rejected = [c \in Callers |-> 0]
  /\ firstValid = [c \in Callers |-> <<>>]
  /\ seen = <<>>

Call(c, name, a, how, first) ==
  /\ pc[c] = "idle"
  /\ pc' = [pc EXCEPT ![c] = first]
  /\ op' = [op EXCEPT ![c] = name]
  /\ args' = [args EXCEPT ![c] = a]
  /\ origin' = [origin EXCEPT ![c] = how]
  /\ UNCHANGED <<privKey, buffer, privateKey, hash, sig, pubKey, result,
                 rejected, firstValid, seen>>

Finish(c, r) ==
  /\ pc' = [pc EXCEPT ![c] = "done"]
  /\ result' = [result EXCEPT ![c] = r]

(* createPrivateKey, lines 16-22 *)
CallCreatePrivateKey(c) == Call(c, "createPrivateKey", <<>>, <<"raw">>, "create_draw")

\* line 19
CreateDraw(c) ==
  /\ pc[c] = "create_draw"
  /\ \E bytes \in RandomBytes :
       /\ privKey' = [privKey EXCEPT ![c] = bytes]
       /\ firstValid' = [firstValid EXCEPT ![c] =
                           IF @ = <<>> /\ PrivateKeyVerify(bytes) THEN bytes ELSE @]
  /\ pc' = [pc EXCEPT ![c] = "create_check"]
  /\ UNCHANGED <<op, args, origin, buffer, privateKey, hash, sig, pubKey, result,
                 rejected, seen>>

\* lines 20-21
CreateCheck(c) ==
  /\ pc[c] = "create_check"
  /\ IF createPrivateKey_again(privKey[c])
       THEN /\ pc' = [pc EXCEPT ![c] = "create_draw"]
            /\ rejected' = [rejected EXCEPT ![c] = IF @ < MaxDraws THEN @ + 1 ELSE @]
            /\ UNCHANGED result
       ELSE /\ Finish(c, createPrivateKey_return(privKey[c]))
            /\ UNCHANGED rejected
  /\ UNCHANGED <<op, args, origin, privKey, buffer, privateKey, hash, sig, pubKey,
                 firstValid, seen>>

(* getPublicKey, lines 37-43 *)
CallGetPublicKey(c, k) == Call(c, "getPublicKey", <<k>>, <<"raw">>, "gpk_decode")

\* Line 39 with buffer a variable of the module, not of the call.
GpkDecode_shared(c) ==
  /\ pc[c] = "gpk_decode"
  /\ buffer' = [d \in Callers |-> getPublicKey_buffer(args[c][1])]
  /\ pc' = [pc EXCEPT ![c] = "gpk_create"]
  /\ UNCHANGED <<op, args, origin, privKey, privateKey, hash, sig, pubKey, result,
                 rejected, firstValid, seen>>

\* line 39
GpkDecode(c) ==
  /\ pc[c] = "gpk_decode"
  /\ buffer' = [buffer EXCEPT ![c] = getPublicKey_buffer(args[c][1])]
  /\ pc' = [pc EXCEPT ![c] = "gpk_create"]
  /\ UNCHANGED <<op, args, origin, privKey, privateKey, hash, sig, pubKey, result,
                 rejected, firstValid, seen>>

\* lines 41-42
GpkCreate(c) ==
  /\ pc[c] = "gpk_create"
  /\ Finish(c, getPublicKey_return(buffer[c]))
  /\ UNCHANGED <<op, args, origin, privKey, buffer, privateKey, hash, sig, pubKey,
                 rejected, firstValid, seen>>

(* sign, lines 58-66 *)
CallSign(c, k, m) == Call(c, "sign", <<k, m>>, <<"raw">>, "sign_decode")

\* line 62
SignDecode(c) ==
  /\ pc[c] = "sign_decode"
  /\ privateKey' = [privateKey EXCEPT ![c] = sign_privateKey(args[c][1])]
  /\ pc' = [pc EXCEPT ![c] = "sign_digest"]
  /\ UNCHANGED <<op, args, origin, privKey, buffer, hash, sig, pubKey, result,
                 rejected, firstValid, seen>>

\* Line 63 with hash a variable of the module, not of the call.
SignDigest_shared(c) ==
  /\ pc[c] = "sign_digest"
  /\ hash' = [d \in Callers |-> sign_hash(args[c][2])]
  /\ pc' = [pc EXCEPT ![c] = "sign_sign"]
  /\ UNCHANGED <<op, args, origin, privKey, buffer, privateKey, sig, pubKey, result,
                 rejected, firstValid, seen>>

\* line 63
SignDigest(c) ==
  /\ pc[c] = "sign_digest"
  /\ hash' = [hash EXCEPT ![c] = sign_hash(args[c][2])]
  /\ pc' = [pc EXCEPT ![c] = "sign_sign"]
  /\ UNCHANGED <<op, args, origin, privKey, buffer, privateKey, sig, pubKey, result,
                 rejected, firstValid, seen>>

\* lines 64-65
SignSign(c) ==
  /\ pc[c] = "sign_sign"
  /\ Finish(c, sign_return(hash[c], privateKey[c]))
  /\ UNCHANGED <<op, args, origin, privKey, buffer, privateKey, hash, sig, pubKey,
                 rejected, firstValid, seen>>

(* verify, lines 78-87 *)
\* verify on any three strings.
CallVerify(c, p, m, s) == Call(c, "verify", <<p, m, s>>, <<"raw">>, "verify_digest")

\* verify on a public key and a signature the caller got from getPublicKey
\* and sign: the key of scalar k2 with message m2, the signature of message
\* m1 under the key of scalar k1.
CallVerifySigned(c, k1, k2, m1, m2) ==
  LET pub == getPublicKey(PrivHex(k2))
      signed == sign(PrivHex(k1), m1)
  IN  /\ pub.kind = "return"
      /\ signed.kind = "return"
      /\ Call(c, "verify", <<pub.value, m2, signed.value>>,
              <<"signed", k1, k2, m1, m2>>, "verify_digest")

\* verify on a public key from getPublicKey and any 64 bytes in hex.
CallVerifySweep(c, k, m, rb, sb) ==
  LET pub == getPublicKey(PrivHex(k))
  IN  /\ pub.kind = "return"
      /\ Call(c, "verify", <<pub.value, m, HexEncode(rb \o sb)>>,
              <<"sweep", k, m>>, "verify_digest")

\* line 82
VerifyDigest(c) ==
  /\ pc[c] = "verify_digest"
  /\ hash' = [hash EXCEPT ![c] = verify_hash(args[c][2])]
  /\ pc' = [pc EXCEPT ![c] = "verify_sig"]
  /\ UNCHANGED <<op, args, origin, privKey, buffer, privateKey, sig, pubKey, result,
                 rejected, firstValid, seen>>

\* line 83
VerifyDecodeSig(c) ==
  /\ pc[c] = "verify_sig"
  /\ sig' = [sig EXCEPT ![c] = verify_sig(args[c][3])]
  /\ pc' = [pc EXCEPT ![c] = "verify_pub"]
  /\ UNCHANGED <<op, args, origin, privKey, buffer, privateKey, hash, pubKey, result,
                 rejected, firstValid, seen>>

\* line 84
VerifyDecodePub(c) ==
  /\ pc[c] = "verify_pub"
  /\ pubKey' = [pubKey EXCEPT ![c] = verify_pubKey(args[c][1])]
  /\ pc' = [pc EXCEPT ![c] = "verify_check"]
  /\ UNCHANGED <<op, args, origin, privKey, buffer, privateKey, hash, sig, result,
                 rejected, firstValid, seen>>

\* lines 85-86, on either build of the binding
VerifyCheck(c) ==
  /\ pc[c] = "verify_check"
  /\ \E backend \in Backends :
       Finish(c, verify_return(backend, hash[c], sig[c], pubKey[c]))
  /\ UNCHANGED <<op, args, origin, privKey, buffer, privateKey, hash, sig, pubKey,
                 rejected, firstValid, seen>>

\* The caller takes the result; the frame is gone.
Leave(c) ==
  /\ pc' = [pc EXCEPT ![c] = "idle"]
  /\ op' = [op EXCEPT ![c] = "none"]
  /\ args' = [args EXCEPT ![c] = <<>>]
  /\ origin' = [origin EXCEPT ![c] = <<>>]
  /\ privKey' = [privKey EXCEPT ![c] = <<>>]
  /\ buffer' = [buffer EXCEPT ![c] = <<>>]
  /\ privateKey' = [privateKey EXCEPT ![c] = <<>>]
  /\ hash' = [hash EXCEPT ![c] = <<>>]
  /\ sig' = [sig EXCEPT ![c] = <<>>]
  /\ pubKey' = [pubKey EXCEPT ![c] = <<>>]
  /\ result' = [result EXCEPT ![c] = NoResult]
  /\ rejected' = [rejected EXCEPT ![c] = 0]
  /\ firstValid' = [firstValid EXCEPT ![c] = <<>>]

Return(c) ==
  /\ pc[c] = "done"
  /\ Leave(c)
  /\ UNCHANGED seen

\* The caller takes what getPublicKey gave it and remembers the call.
Remember(c) ==
  /\ pc[c] = "done"
  /\ op[c] = "getPublicKey"
  /\ seen = <<>>
  /\ seen' = <<args[c][1], result[c]>>
  /\ Leave(c)

Step(c) ==
  \/ CreateDraw(c)
  \/ CreateCheck(c)
  \/ GpkDecode(c)
  \/ GpkCreate(c)
  \/ SignDecode(c)
  \/ SignDigest(c)
  \/ SignSign(c)
  \/ VerifyDigest(c)
  \/ VerifyDecodeSig(c)
  \/ VerifyDecodePub(c)
  \/ VerifyCheck(c)
  \/ Return(c)

\* One caller, one call after the other (the functions are synchronous),
\* on everything a caller may pass.
Main == "a"

Next ==
  \/ CallCreatePrivateKey(Main)
  \/ pc[Main] = "idle" /\ \E k \in PrivateKeyInputs : CallGetPublicKey(Main, k)
  \/ pc[Main] = "idle" /\ \E k \in PrivateKeyInputs, m \in Messages : CallSign(Main, k, m)
  \/ pc[Main] = "idle" /\ \E k1, k2 \in ValidScalars, m \in Messages :
                            CallVerifySigned(Main, k1, k2, m, m)
  \/ pc[Main] = "idle" /\ \E k \in ValidScalars, m1, m2 \in Messages :
                            CallVerifySigned(Main, k, k, m1, m2)
  \/ pc[Main] = "idle" /\ \E k \in SweepKeys, m \in SweepMessages, rb, sb \in SweepParts :
                            CallVerifySweep(Main, k, m, rb, sb)
  \/ pc[Main] = "idle" /\ \E p \in PublicKeyInputs, s \in SignatureInputs :
                            CallVerify(Main, p, <<>>, s)
  \/ Step(Main)

Spec == Init /\ [][Next]_vars

\* Callers whose calls interleave statement by statement.
ConcNext ==
  \E c \in Callers :
    \/ CallCreatePrivateKey(c)
    \/ pc[c] = "idle" /\ \E k \in ConcKeys : CallGetPublicKey(c, k)
    \/ pc[c] = "idle" /\ \E k \in ConcKeys, m \in ConcMessages : CallSign(c, k, m)
    \/ pc[c] = "idle" /\ \E k2 \in ConcScalars, m1, m2 \in ConcMessages :
                           CallVerifySigned(c, 1, k2, m1, m2)
    \/ pc[c] = "idle" /\ CallVerify(c, GoodPub, <<>>, GoodSig \o Garbage)
    \/ Step(c)
    \/ Remember(c)

ConcSpec == Init /\ [][ConcNext]_vars

\* createPrivateKey alone, with a random source that yields a valid scalar
\* again and again.
CreateDrawValid(c) == CreateDraw(c) /\ PrivateKeyVerify(privKey'[c])

CreateNext ==
  \E c \in Callers :
    \/ CallCreatePrivateKey(c)
    \/ CreateDraw(c)
    \/ CreateCheck(c)
    \/ Return(c)

FairSpec ==
  /\ Init
  /\ [][CreateNext]_vars
  /\ \A c \in Callers :
       /\ WF_vars(CreateDraw(c))
       /\ WF_vars(CreateCheck(c))
       /\ SF_vars(CreateDrawValid(c))

(***************************************************************************)
(* Properties.                                                             *)
(***************************************************************************)
Done(c, name) == pc[c] = "done" /\ op[c] = name

IsLowerHex(str, n) ==
  /\ Len(str) = n
  /\ \A i \in 1..n : \E j \in 1..16 : HexDigits[j] = str[i]

WellFormedHex(str, n) ==
  /\ Len(str) = n
  /\ \A i \in 1..n : IsHexChar(str[i])

ValidKeyHex == {PrivHex(v) : v \in ValidScalars}

\* The spec's error kinds: a buffer of the wrong length is InvalidEncoding,
\* a value the curve refuses is InvalidKey.
LengthErrors ==
  { "RangeError: private key length is invalid",
    "RangeError: public key length is invalid",
    "RangeError: signature length is invalid",
    "RangeError: message length is invalid" }
ErrorKind(r) ==
  IF r.kind # "throw" THEN "none"
  ELSE IF r.value \in LengthErrors THEN "InvalidEncoding"
  ELSE "InvalidKey"

\* Every ECDSA signature of digest residue z under the private scalar d:
\* one for each nonce.  Those with s in the lower half of the order are
\* the ones a verifier that insists on low s can accept.
NoncePoints == {<<k, ScalarMul(k, G)[1] % GroupN>> : k \in 1..(GroupN - 1)}
EcdsaSignatures(d, z) ==
  { rs \in { <<q[2], (ModInv(q[1], GroupN) * (z + q[2] * d)) % GroupN>> : q \in NoncePoints } :
      rs[1] # 0 /\ rs[2] # 0 }
LowSSignatures(d, z) ==
  { BytesOf(rs[1], KeyBytes) \o BytesOf(rs[2], KeyBytes) :
      rs \in {x \in EcdsaSignatures(d, z) : 2 * x[2] < GroupN} }

Signed(c) == Done(c, "verify") /\ origin[c][1] = "signed"
Swept(c) == Done(c, "verify") /\ origin[c][1] = "sweep"

\* C1: for every valid private key k and message m, getPublicKey(k) and
\* sign(k, m) return (66 and 128 lowercase hex digits), and verify on the
\* public key, the message and the signature returns true.
C1_RoundTrip ==
  \A c \in Callers :
    /\ Done(c, "getPublicKey") /\ args[c][1] \in ValidKeyHex
         => result[c].kind = "return" /\ IsLowerHex(result[c].value, 2 * KeyBytes + 2)
    /\ Done(c, "sign") /\ args[c][1] \in ValidKeyHex
         => result[c].kind = "return" /\ IsLowerHex(result[c].value, 4 * KeyBytes)
    /\ Signed(c) /\ origin[c][2] = origin[c][3] /\ origin[c][4] = origin[c][5]
         => result[c].kind = "return" /\ result[c].value = TRUE

C1_Witness ==
  \E c \in Callers :
    /\ Signed(c) /\ origin[c][2] = origin[c][3] /\ origin[c][4] = origin[c][5]
    /\ origin[c][4] # <<>>
    /\ result[c].kind = "return" /\ result[c].value = TRUE

C4_CreatedKeyIsValid ==
  \A c \in Callers :
    Done(c, "createPrivateKey")
      => /\ result[c].kind = "return"
         /\ IsLowerHex(result[c].value, 2 * KeyBytes)
         /\ HexDecode(result[c].value) = privKey[c]
         /\ PrivateKeyVerify(HexDecode(result[c].value))

C4_Witness ==
  \E c \in Callers :
    /\ Done(c, "createPrivateKey")
    /\ rejected[c] = MaxDraws
    /\ result[c].kind = "return"

\* C5 as claimed: getPublicKey throws for every argument that is not 64
\* hex digits of a valid scalar; an argument with a character that is no
\* hex digit fails as InvalidEncoding, the zero scalar as InvalidKey.
C5_BadPrivateKeyFails ==
  \A c \in Callers :
    Done(c, "getPublicKey")
      => /\ ~(WellFormedHex(args[c][1], 2 * KeyBytes)
                /\ PrivateKeyVerify(HexDecode(args[c][1])))
              => result[c].kind = "throw"
         /\ (\E i \in 1..Len(args[c][1]) : ~IsHexChar(args[c][1][i]))
              => ErrorKind(result[c]) = "InvalidEncoding"
         /\ args[c][1] = PrivHex(0) => ErrorKind(result[c]) = "InvalidKey"

\* C6 as claimed: verify fails as InvalidEncoding whenever publicKey is
\* not 66 hex digits or signature is not 128 hex digits.
C6_MalformedVerifyFails ==
  \A c \in Callers :
    Done(c, "verify")
      /\ (~WellFormedHex(args[c][1], 2 * KeyBytes + 2)
            \/ ~WellFormedHex(args[c][3], 4 * KeyBytes))
      => ErrorKind(result[c]) = "InvalidEncoding"

C8_GetPublicKeyDeterministic ==
  \A c \in Callers :
    Done(c, "getPublicKey")
      => /\ seen # <<>> /\ seen[1] = args[c][1] => result[c] = seen[2]
         /\ args[c][1] \in ValidKeyHex
              => result[c].kind = "return" /\ IsLowerHex(result[c].value, 2 * KeyBytes + 2)

C8_Witness ==
  \E c \in Callers, d \in Callers :
    /\ c # d
    /\ Done(c, "getPublicKey")
    /\ seen # <<>> /\ seen[1] = args[c][1]
    /\ result[c].kind = "return"
    /\ pc[d] = "sign_sign"

\* C9: createPrivateKey draws again after every draw that fails the check,
\* draws no more once a draw passed it, returns the first valid draw, and,
\* with a random source that yields a valid scalar again and again, returns.
C9_FirstValidDraw ==
  /\ [](\A c \in Callers :
          /\ Done(c, "createPrivateKey")
               => firstValid[c] # <<>> /\ result[c] = Returned(HexEncode(firstValid[c]))
          /\ firstValid[c] # <<>> => privKey[c] = firstValid[c])
  /\ [][\A c \in Callers :
          pc[c] = "create_check" /\ ~PrivateKeyVerify(privKey[c]) /\ pc'[c] # pc[c]
            => pc'[c] = "create_draw"]_vars
  /\ \A c \in Callers : pc[c] = "create_draw" ~> Done(c, "createPrivateKey")

C9_Witness ==
  \E c \in Callers :
    /\ Done(c, "createPrivateKey")
    /\ rejected[c] = MaxDraws
    /\ result[c] = Returned(HexEncode(firstValid[c]))

\* C10: under any interleaving of the callers' calls each call returns what
\* it returns when run alone on the same arguments, a step of one call
\* leaves the other caller's frame alone, and no call changes its arguments.
Frame(c) ==
  <<pc[c], op[c], args[c], origin[c], privKey[c], buffer[c], privateKey[c],
    hash[c], sig[c], pubKey[c], result[c], rejected[c], firstValid[c]>>

Alone(c) ==
  CASE op[c] = "getPublicKey" -> result[c] = getPublicKey(args[c][1])
    [] op[c] = "sign" -> result[c] = sign(args[c][1], args[c][2])
    [] op[c] = "verify" ->
         \E backend \in Backends :
           result[c] = verify(backend, args[c][1], args[c][2], args[c][3])
    [] OTHER -> result[c].kind = "return" /\ PrivateKeyVerify(HexDecode(result[c].value))

C10_NoSharedState ==
  /\ [](\A c \in Callers : pc[c] = "done" => Alone(c))
  /\ [][\E c \in Callers : \A d \in Callers \ {c} : Frame(d)' = Frame(d)]_vars
  /\ [][\A c \in Callers : pc[c] # "idle" /\ pc'[c] # "idle" => args'[c] = args[c]]_vars

C10_Witness ==
  \E c \in Callers, d \in Callers :
    /\ Done(c, "sign") /\ result[c].kind = "return"
    /\ Done(d, "verify") /\ result[d].kind = "return"

=============================================================================
